---- MODULE Spec2Model ----
(***************************************************************************)
(* Solar Energy Monitoring Dashboard (src/solar.py).                       *)
(*                                                                         *)
(* The script is a Streamlit page: every user interaction (uploading a     *)
(* file, removing it, changing one of the two time pickers) re-runs the    *)
(* whole script top to bottom.  One action of this model is one            *)
(* interaction together with the script run it triggers.                   *)
(*                                                                         *)
(* Numbers.  The telemetry columns hold whole numbers; every computed      *)
(* float (sum, mean, max, Efficiency) is an exact fraction                 *)
(* [num |-> n, den |-> d] in lowest terms, with 0/0 for NaN and 1/0 for    *)
(* +inf, which is what IEEE division gives for 0.0/0.0 and x/0.0.          *)
(* Text.  CSV cells are strings; formatting and parsing are modelled as    *)
(* what pandas writes and reads for the values of the model's domain.      *)
(***************************************************************************)
EXTENDS Integers, Sequences, FiniteSets, TLC

VARIABLES
    uploaded_file,  \* value of st.sidebar.file_uploader: a file or NoFile
    cache,          \* the st.cache_data memo of load_data: key -> Dataset
    start_widget,   \* session state of the "Start Time" picker
    end_widget,     \* session state of the "End Time" picker
    out,            \* what the last script run computed and rendered
    nparse,         \* history: how often load_data's body ran, per file
    nupload,        \* history: how often each file was uploaded
    event           \* history: the interaction that triggered the last run

vars == <<uploaded_file, cache, start_widget, end_widget, out, nparse, nupload, event>>

---------------------------------------------------------------------------
(* Bounds of the model. *)

\* longest file (in data rows) of the single-upload specification
MaxRows == 3
\* longest file (in data rows) of the session specification
MaxSessionRows == 1
\* uploads per session in the session specification
MaxUploads == 2

---------------------------------------------------------------------------
(* Generic helpers. *)

Range(s) == {s[i] : i \in DOMAIN s}

Min2(a, b) == IF a <= b THEN a ELSE b

RECURSIVE Gcd(_, _)
Gcd(a, b) == IF b = 0 THEN a ELSE Gcd(b, a % b)

\* all sequences over S of length at most n
RECURSIVE SeqsUpTo(_, _)
SeqsUpTo(S, n) ==
    IF n = 0 THEN {<<>>}
    ELSE LET shorter == SeqsUpTo(S, n - 1)
         IN  shorter \cup {Append(q, e) : q \in {p \in shorter : Len(p) = n - 1}, e \in S}

---------------------------------------------------------------------------
(* Floats as exact fractions. *)

NaN == [num |-> 0, den |-> 0]
Inf == [num |-> 1, den |-> 0]

\* the float n/d for n, d >= 0
Rat(n, d) ==
    IF d = 0 THEN (IF n = 0 THEN NaN ELSE Inf)
    ELSE LET g == Gcd(n, d) IN [num |-> n \div g, den |-> d \div g]

IsNaN(q) == q.den = 0 /\ q.num = 0
IsFinite(q) == q.den # 0

---------------------------------------------------------------------------
(* Timestamps: a calendar date of one year and a clock time in minutes. *)

Clock(h, m) == h * 60 + m

\* lexicographic order on (month, day, clock): the order of datetime64 values
TsLeq(a, b) ==
    \/ a.mon < b.mon
    \/ a.mon = b.mon /\ a.day < b.day
    \/ a.mon = b.mon /\ a.day = b.day /\ a.min <= b.min

Date(ts) == [mon |-> ts.mon, day |-> ts.day]

\* Timestamp.time() / Series.dt.time: the clock time, the date dropped
TimeOf(ts) == ts.min

\* Series.dt.hour and Series.dt.month
HourOf(ts) == ts.min \div 60
MonthOf(ts) == ts.mon

---------------------------------------------------------------------------
(* Text of values, as found in a CSV cell. *)

D2(n) == IF n < 10 THEN "0" \o ToString(n) ELSE ToString(n)

\* str(Timestamp): "YYYY-MM-DD HH:MM:SS"
FormatTimestamp(ts) ==
    "2024-" \o D2(ts.mon) \o "-" \o D2(ts.day) \o " "
        \o D2(ts.min \div 60) \o ":" \o D2(ts.min % 60) \o ":00"

\* the digits of the fraction r/d (0 <= r < d), by long division
RECURSIVE FracDigits(_, _, _)
FracDigits(r, d, k) ==
    IF r = 0 \/ k = 0 THEN ""
    ELSE ToString((r * 10) \div d) \o FracDigits((r * 10) % d, d, k - 1)

\* repr(float), the text to_csv writes for a float64 cell; NaN is written
\* as the empty field (na_rep = "")
FloatRepr(q) ==
    IF IsNaN(q) THEN ""
    ELSE IF ~IsFinite(q) THEN "inf"
    ELSE LET ip == q.num \div q.den
             r  == q.num % q.den
         IN  ToString(ip) \o "." \o (IF r = 0 THEN "0" ELSE FracDigits(r, q.den, 17))

---------------------------------------------------------------------------
(* The telemetry columns (spec section 3, used by name in src/solar.py). *)

Columns ==
    << "Timestamp", "Power_Output_W", "Solar_Irradiance_W/m2",
       "Battery_Charge_Level_%", "CO2_Emissions_Saved_kg", "Energy_Saved_kWh",
       "Panel_Temperature_C", "Load_Consumption_W", "Fault_Status" >>

NumericColumns ==
    { "Power_Output_W", "Solar_Irradiance_W/m2", "Battery_Charge_Level_%",
      "CO2_Emissions_Saved_kg", "Energy_Saved_kWh", "Panel_Temperature_C",
      "Load_Consumption_W" }

Sample(ts, power, irr, batt, co2, energy, temp, load, fault) ==
    [c \in Range(Columns) |->
        CASE c = "Timestamp" -> ts
          [] c = "Power_Output_W" -> power
          [] c = "Solar_Irradiance_W/m2" -> irr
          [] c = "Battery_Charge_Level_%" -> batt
          [] c = "CO2_Emissions_Saved_kg" -> co2
          [] c = "Energy_Saved_kWh" -> energy
          [] c = "Panel_Temperature_C" -> temp
          [] c = "Load_Consumption_W" -> load
          [] c = "Fault_Status" -> fault]

\* The telemetry samples the model's files are made of: three samples in the
\* same hour of one day, an earlier one of that day, one of another month;
\* zero irradiance with and without power; two kinds of fault.
Jan15(h, m) == [mon |-> 1, day |-> 15, min |-> Clock(h, m)]
Feb01(h, m) == [mon |-> 2, day |-> 1, min |-> Clock(h, m)]

SamplePool ==
    { Sample(Jan15(10, 0), 100, 100, 50, 1, 2, 20, 50, "No Fault"),
      Sample(Jan15(10, 30), 200, 0, 60, 2, 3, 30, 250, "Overheat"),
      Sample(Jan15(10, 45), 300, 100, 70, 3, 4, 25, 100, "No Fault"),
      Sample(Jan15(9, 15), 0, 0, 40, 0, 0, 15, 50, "No Fault"),
      Sample(Feb01(8, 0), 160, 100, 80, 1, 1, 10, 300, "Inverter Fault") }

SessionSamplePool ==
    { Sample(Jan15(10, 0), 100, 100, 50, 1, 2, 20, 50, "No Fault"),
      Sample(Feb01(8, 0), 160, 100, 80, 1, 1, 10, 300, "Inverter Fault") }

\* the times of day the user sets a picker to
TimeChoices == { Clock(8, 0), Clock(10, 0), Clock(10, 30), Clock(23, 0) }

\* the text of one sample as a line of the uploaded CSV
CellText(c, v) ==
    IF c = "Timestamp" THEN FormatTimestamp(v)
    ELSE IF c \in NumericColumns THEN ToString(v)
    ELSE v

CsvLine(sample) == [i \in DOMAIN Columns |-> CellText(Columns[i], sample[Columns[i]])]

\* An uploaded file: whether its bytes decode, and the decoded CSV as a
\* header and lines of fields (the CSV tokenizer itself is pandas').
CsvFile(samples) ==
    [present |-> TRUE, decodable |-> TRUE,
     header |-> Columns,
     lines |-> [i \in DOMAIN samples |-> CsvLine(samples[i])]]

\* file_uploader returns None while nothing is uploaded
NoFile == [present |-> FALSE, decodable |-> FALSE, header |-> <<>>, lines |-> <<>>]

\* the three malformed uploads of spec section 7
UndecodableFile == [present |-> TRUE, decodable |-> FALSE, header |-> <<>>, lines |-> <<>>]

NoTimestampFile ==
    [present |-> TRUE, decodable |-> TRUE,
     header |-> << "Power_Output_W", "Fault_Status" >>,
     lines |-> << << "100", "No Fault" >> >>]

BadTimestampFile ==
    [present |-> TRUE, decodable |-> TRUE,
     header |-> Columns,
     lines |-> << CsvLine(Sample(Jan15(10, 0), 100, 100, 50, 1, 2, 20, 50, "No Fault")),
                  [CsvLine(Sample(Jan15(10, 30), 200, 0, 60, 2, 3, 30, 250, "Overheat"))
                      EXCEPT ![1] = "not a date"] >>]

MalformedFiles == { UndecodableFile, NoTimestampFile, BadTimestampFile }

ViewFiles == { CsvFile(s) : s \in SeqsUpTo(SamplePool, MaxRows) } \cup MalformedFiles

SessionFiles ==
    { CsvFile(s) : s \in SeqsUpTo(SessionSamplePool, MaxSessionRows) } \cup MalformedFiles

AllFiles == ViewFiles \cup SessionFiles

---------------------------------------------------------------------------
(* Parsing text back into values (pandas.read_csv, pandas.to_datetime).    *)
(* A text parses to the value of the model's domain that is written that   *)
(* way; any other text is not a number, respectively not a date.           *)

IntPool == 0 .. 300
IntTexts == { ToString(n) : n \in IntPool }
IntOfText == [t \in IntTexts |-> CHOOSE n \in IntPool : ToString(n) = t]

PANEL_AREA == [num |-> 16, den |-> 10]

\* power / (irradiance * PANEL_AREA), elementwise float division
EfficiencyOf(power, irr) == Rat(power * PANEL_AREA.den, irr * PANEL_AREA.num)

FloatPool ==
    { EfficiencyOf(a["Power_Output_W"], b["Solar_Irradiance_W/m2"]) :
        a \in SamplePool, b \in SamplePool }
FloatTexts == { FloatRepr(q) : q \in FloatPool } \ {""}
FloatOfText == [t \in FloatTexts |-> CHOOSE q \in FloatPool : FloatRepr(q) = t]

TimestampPool == { a["Timestamp"] : a \in SamplePool }
TimestampTexts == { FormatTimestamp(ts) : ts \in TimestampPool }
TimestampOfText ==
    [t \in TimestampTexts |-> CHOOSE ts \in TimestampPool : FormatTimestamp(ts) = t]

---------------------------------------------------------------------------
(* Data frames: the column labels in order, the index labels in order and *)
(* the rows, each a function from column label to cell value.             *)

EmptyFrame == [columns |-> <<>>, index |-> <<>>, rows |-> <<>>]

HasColumn(df, c) == c \in Range(df.columns)

Column(df, c) == [i \in DOMAIN df.rows |-> df.rows[i][c]]

\* df[c] = vals: an existing column is overwritten in place, a new one is
\* appended as the last column
SetColumn(df, c, vals) ==
    [columns |-> IF HasColumn(df, c) THEN df.columns ELSE Append(df.columns, c),
     index |-> df.index,
     rows |-> [i \in DOMAIN df.rows |-> (c :> vals[i]) @@ df.rows[i]]]

\* the positions at which mask is TRUE, in ascending order
RECURSIVE TruePositions(_, _)
TruePositions(mask, i) ==
    IF i > Len(mask) THEN <<>>
    ELSE (IF mask[i] THEN <<i>> ELSE <<>>) \o TruePositions(mask, i + 1)

\* df[mask]: a new frame holding the selected rows under their index labels
BoolIndex(df, mask) ==
    LET pos == TruePositions(mask, 1)
    IN  [columns |-> df.columns,
         index |-> [k \in DOMAIN pos |-> df.index[pos[k]]],
         rows |-> [k \in DOMAIN pos |-> df.rows[pos[k]]]]

\* the dtype read_csv infers for the cells of one column
Dtype(cells) ==
    IF cells # <<>> /\ \A i \in DOMAIN cells : cells[i] \in IntTexts THEN "int64"
    ELSE IF cells # <<>>
            /\ \A i \in DOMAIN cells : cells[i] \in IntTexts \cup FloatTexts \cup {""}
         THEN "float64"
    ELSE "object"

CellValue(text, dtype) ==
    CASE dtype = "int64" -> IntOfText[text]
      [] dtype = "float64" ->
            IF text = "" THEN NaN
            ELSE IF text \in IntTexts THEN Rat(IntOfText[text], 1)
            ELSE FloatOfText[text]
      [] OTHER -> text

\* pd.read_csv(file): raises ValueError for None and UnicodeDecodeError when
\* the bytes do not decode; otherwise a frame with the header as columns, a
\* fresh RangeIndex and typed cells
read_csv(file) ==
    IF ~file.present THEN [raised |-> "ValueError", df |-> EmptyFrame]
    ELSE IF ~file.decodable THEN [raised |-> "UnicodeDecodeError", df |-> EmptyFrame]
    ELSE LET cells(j) == [i \in DOMAIN file.lines |-> file.lines[i][j]]
             dtype == [j \in DOMAIN file.header |-> Dtype(cells(j))]
         IN  [raised |-> "",
              df |-> [columns |-> file.header,
                      index |-> [i \in DOMAIN file.lines |-> i - 1],
                      rows |-> [i \in DOMAIN file.lines |->
                                  [c \in Range(file.header) |->
                                      LET j == CHOOSE k \in DOMAIN file.header :
                                                   file.header[k] = c
                                      IN  CellValue(file.lines[i][j], dtype[j])]]]]

\* pd.to_datetime(series) raises on the first text that is no date
CanParseDates(texts) == \A i \in DOMAIN texts : texts[i] \in TimestampTexts
to_datetime(texts) == [i \in DOMAIN texts |-> TimestampOfText[texts[i]]]

\* df['Timestamp'] = pd.to_datetime(df['Timestamp'])
ParseTimestamps(df) == SetColumn(df, "Timestamp", to_datetime(Column(df, "Timestamp")))

\* df['Hour'] = df['Timestamp'].dt.hour; df['Month'] = df['Timestamp'].dt.month
AddHourMonth(df) ==
    SetColumn(
        SetColumn(df, "Hour",
            [i \in DOMAIN df.rows |-> HourOf(df.rows[i]["Timestamp"])]),
        "Month",
        [i \in DOMAIN df.rows |-> MonthOf(df.rows[i]["Timestamp"])])

\* the rows whose Timestamp text is a date
DatedRows(df) ==
    BoolIndex(df, [i \in DOMAIN df.rows |-> df.rows[i]["Timestamp"] \in TimestampTexts])

\* the load that drops the rows with an unparseable Timestamp
LoadFromLenient(read) ==
    IF read.raised # "" THEN read
    ELSE IF ~HasColumn(read.df, "Timestamp") THEN [raised |-> "KeyError", df |-> EmptyFrame]
    ELSE [raised |-> "", df |-> AddHourMonth(ParseTimestamps(DatedRows(read.df)))]

\* lines 18-21 on what read_csv returned
LoadFrom(read) ==
    IF read.raised # "" THEN read
    ELSE IF ~HasColumn(read.df, "Timestamp") THEN [raised |-> "KeyError", df |-> EmptyFrame]
    ELSE IF ~CanParseDates(Column(read.df, "Timestamp"))
         THEN [raised |-> "ValueError", df |-> EmptyFrame]
    ELSE [raised |-> "", df |-> AddHourMonth(ParseTimestamps(read.df))]

\* load_data(file), the body under @st.cache_data
load_data(file) == LoadFrom(read_csv(file))

---------------------------------------------------------------------------
(* Time filter (lines 36-39). *)

\* the mask with the end bound exclusive
TimeMaskEndExclusive(df, start_time, end_time) ==
    [i \in DOMAIN df.rows |->
        /\ TimeOf(df.rows[i]["Timestamp"]) >= start_time
        /\ TimeOf(df.rows[i]["Timestamp"]) < end_time]

\* (df["Timestamp"].dt.time >= start_time) & (df["Timestamp"].dt.time <= end_time)
TimeMask(df, start_time, end_time) ==
    [i \in DOMAIN df.rows |->
        /\ TimeOf(df.rows[i]["Timestamp"]) >= start_time
        /\ TimeOf(df.rows[i]["Timestamp"]) <= end_time]

df_filtered(df, start_time, end_time) == BoolIndex(df, TimeMask(df, start_time, end_time))

---------------------------------------------------------------------------
(* Aggregates (lines 46-49, 101) with pandas' results on an empty series. *)

RECURSIVE SumSeq(_)
SumSeq(xs) == IF xs = <<>> THEN 0 ELSE Head(xs) + SumSeq(Tail(xs))

RECURSIVE MaxSeq(_)
MaxSeq(xs) ==
    IF Len(xs) = 1 THEN Head(xs)
    ELSE LET m == MaxSeq(Tail(xs)) IN IF Head(xs) >= m THEN Head(xs) ELSE m

\* Series.sum(): 0 for no rows
sum(xs) == Rat(SumSeq(xs), 1)
\* Series.mean(): NaN for no rows
mean(xs) == Rat(SumSeq(xs), Len(xs))
\* the maximum with 0 for no rows
maxZeroOnEmpty(xs) == IF xs = <<>> THEN Rat(0, 1) ELSE Rat(MaxSeq(xs), 1)

\* Series.max(): NaN for no rows
max(xs) == IF xs = <<>> THEN NaN ELSE Rat(MaxSeq(xs), 1)

RECURSIVE Pow10(_)
Pow10(k) == IF k = 0 THEN 1 ELSE 10 * Pow10(k - 1)

RECURSIVE NDigits(_)
NDigits(n) == IF n < 10 THEN 1 ELSE 1 + NDigits(n \div 10)

RECURSIVE ZeroPad(_, _)
ZeroPad(text, zeros) ==
    IF zeros <= 0 THEN text ELSE ZeroPad("0" \o text, zeros - 1)

\* f"{q:.<k>f}": "nan" and "inf" for the non-finite floats, else k decimals
\* rounded half to even
FormatFixed(q, k) ==
    IF IsNaN(q) THEN "nan"
    ELSE IF ~IsFinite(q) THEN "inf"
    ELSE LET scaled == q.num * Pow10(k)
             lo == scaled \div q.den
             r  == scaled % q.den
             n  == IF 2 * r > q.den \/ (2 * r = q.den /\ lo % 2 = 1) THEN lo + 1 ELSE lo
             frac == n % Pow10(k)
         IN  ToString(n \div Pow10(k)) \o "."
                 \o ZeroPad(ToString(frac), k - NDigits(frac))

\* the four st.metric cards, left to right
KpiCards(view) ==
    << [kind |-> "metric", label |-> "Energy Saved",
        value |-> FormatFixed(sum(Column(view, "Energy_Saved_kWh")), 2) \o " kWh"],
       [kind |-> "metric", label |-> "CO2 Saved",
        value |-> FormatFixed(sum(Column(view, "CO2_Emissions_Saved_kg")), 2) \o " kg"],
       [kind |-> "metric", label |-> "Avg Panel Temp",
        value |-> FormatFixed(mean(Column(view, "Panel_Temperature_C")), 1) \o " C"],
       [kind |-> "metric", label |-> "Max Power",
        value |-> FormatFixed(max(Column(view, "Power_Output_W")), 1) \o " W"] >>

---------------------------------------------------------------------------
(* Efficiency (lines 54-55). *)

\* the column assigned on the Dataset as well
AssignEfficiencyOnDataset(df, view) ==
    [df |-> SetColumn(df, "Efficiency",
                [i \in DOMAIN df.rows |->
                    EfficiencyOf(df.rows[i]["Power_Output_W"],
                                 df.rows[i]["Solar_Irradiance_W/m2"])]),
     view |-> SetColumn(view, "Efficiency",
                  [i \in DOMAIN view.rows |->
                      EfficiencyOf(view.rows[i]["Power_Output_W"],
                                   view.rows[i]["Solar_Irradiance_W/m2"])])]

\* df_filtered['Efficiency'] = power / (irradiance * PANEL_AREA).  df_filtered
\* is the frame boolean indexing built, so the column lands on it and the
\* frame it was selected from keeps its columns: the pair is (Dataset, view)
\* after the assignment.
AssignEfficiency(df, view) ==
    [df |-> df,
     view |-> SetColumn(view, "Efficiency",
                  [i \in DOMAIN view.rows |->
                      EfficiencyOf(view.rows[i]["Power_Output_W"],
                                   view.rows[i]["Solar_Irradiance_W/m2"])])]

---------------------------------------------------------------------------
(* Hourly average (line 101): groupby('Hour')["Power_Output_W"].mean(). *)

\* one pass over the rows, collecting each key's values in row order
RECURSIVE GroupValues(_, _, _, _)
GroupValues(keys, vals, i, acc) ==
    IF i > Len(keys) THEN acc
    ELSE LET k == keys[i]
             old == IF k \in DOMAIN acc THEN acc[k] ELSE <<>>
         IN  GroupValues(keys, vals, i + 1,
                 [h \in DOMAIN acc \cup {k} |-> IF h = k THEN Append(old, vals[i]) ELSE acc[h]])

\* the group keys in ascending order (groupby sorts its keys)
RECURSIVE SortedKeys(_)
SortedKeys(S) ==
    IF S = {} THEN <<>>
    ELSE LET m == CHOOSE x \in S : \A y \in S : x <= y
         IN  <<m>> \o SortedKeys(S \ {m})

\* the groups summed instead of averaged
hourly_sum(view) ==
    LET groups == GroupValues(Column(view, "Hour"), Column(view, "Power_Output_W"), 1, <<>>)
        keys == SortedKeys(DOMAIN groups)
    IN  [j \in DOMAIN keys |-> [Hour |-> keys[j], mean |-> sum(groups[keys[j]])]]

hourly_avg(view) ==
    LET groups == GroupValues(Column(view, "Hour"), Column(view, "Power_Output_W"), 1, <<>>)
        keys == SortedKeys(DOMAIN groups)
    IN  [j \in DOMAIN keys |-> [Hour |-> keys[j], mean |-> mean(groups[keys[j]])]]

---------------------------------------------------------------------------
(* Fault report (lines 108-113). *)

\* the selection with the comparison the wrong way round
faultsHealthy(view) ==
    BoolIndex(view, [i \in DOMAIN view.rows |-> view.rows[i]["Fault_Status"] = "No Fault"])

faults(view) ==
    BoolIndex(view, [i \in DOMAIN view.rows |-> view.rows[i]["Fault_Status"] # "No Fault"])

FaultReport(view) ==
    IF faults(view).rows # <<>>
    THEN << [kind |-> "warning"], [kind |-> "dataframe", frame |-> faults(view)] >>
    ELSE << [kind |-> "success"] >>

---------------------------------------------------------------------------
(* Export (lines 118-124). *)

\* the text to_csv writes for a cell of column c
WriteCell(c, v) ==
    CASE c = "Timestamp" -> FormatTimestamp(v)
      [] c \in NumericColumns \cup {"Hour", "Month"} -> ToString(v)
      [] c = "Efficiency" -> FloatRepr(v)
      [] OTHER -> v

\* the export with the index labels as an unnamed first column
to_csv_with_index(df) ==
    [header |-> <<"">> \o df.columns,
     lines |-> [i \in DOMAIN df.rows |->
                  <<ToString(df.index[i])>>
                  \o [j \in DOMAIN df.columns |->
                         WriteCell(df.columns[j], df.rows[i][df.columns[j]])]]]

\* df.to_csv(index=False): a header line of the frame's column labels, then
\* one line per row, in row order, the index labels left out
to_csv(df) ==
    [header |-> df.columns,
     lines |-> [i \in DOMAIN df.rows |->
                  [j \in DOMAIN df.columns |-> WriteCell(df.columns[j], df.rows[i][df.columns[j]])]]]

\* the downloaded text, uploaded again
AsUpload(csv) == [present |-> TRUE, decodable |-> TRUE, header |-> csv.header, lines |-> csv.lines]

---------------------------------------------------------------------------
(* The two time pickers (lines 33-34).  A picker without a key is          *)
(* identified by its label and its default: while the default stays the    *)
(* same it keeps what the user set, with another default it starts anew.   *)

NoWidget == [shown |-> FALSE, dflt |-> 0, val |-> 0]

time_input(widget, value) ==
    IF widget.shown /\ widget.dflt = value THEN widget
    ELSE [shown |-> TRUE, dflt |-> value, val |-> value]

RECURSIVE MinTs(_)
MinTs(xs) ==
    IF Len(xs) = 1 THEN Head(xs)
    ELSE LET m == MinTs(Tail(xs)) IN IF TsLeq(Head(xs), m) THEN Head(xs) ELSE m

RECURSIVE MaxTs(_)
MaxTs(xs) ==
    IF Len(xs) = 1 THEN Head(xs)
    ELSE LET m == MaxTs(Tail(xs)) IN IF TsLeq(m, Head(xs)) THEN Head(xs) ELSE m

\* df["Timestamp"].min().time() and df["Timestamp"].max().time(); with no
\* rows min() is NaT, and NaT.time() raises ValueError
HasDefaults(df) == df.rows # <<>>
DefaultStart(df) == TimeOf(MinTs(Column(df, "Timestamp")))
\* the end default taken from the minimum
DefaultEndFromMin(df) == TimeOf(MinTs(Column(df, "Timestamp")))

DefaultEnd(df) == TimeOf(MaxTs(Column(df, "Timestamp")))

---------------------------------------------------------------------------
(* Charts (lines 69-95, 102). *)

Line(df, y, color) ==
    [y |-> y, color |-> color, xs |-> Column(df, "Timestamp"), ys |-> Column(df, y)]

line_plot(df, y, ylabel, color) ==
    [kind |-> "pyplot", ylabel |-> ylabel, lines |-> << Line(df, y, color) >>]

Charts(view) ==
    << line_plot(view, "Power_Output_W", "Power Output (W)", "orange"),
       line_plot(view, "Solar_Irradiance_W/m2", "Irradiance (W/m2)", "red"),
       line_plot(view, "Battery_Charge_Level_%", "Charge (%)", "green"),
       line_plot(view, "CO2_Emissions_Saved_kg", "CO2 Saved (kg)", "brown"),
       line_plot(view, "Efficiency", "Efficiency (decimal)", "purple"),
       [kind |-> "pyplot", ylabel |-> "Watt (W)",
        lines |-> << Line(view, "Load_Consumption_W", "blue"),
                     Line(view, "Power_Output_W", "orange") >>],
       [kind |-> "bar_chart", data |-> hourly_avg(view)] >>

\* df.head(): the first five rows
head(df) ==
    [columns |-> df.columns,
     index |-> SubSeq(df.index, 1, Min2(5, Len(df.index))),
     rows |-> SubSeq(df.rows, 1, Min2(5, Len(df.rows)))]

Tables(view) ==
    << [kind |-> "table", what |-> "preview", frame |-> head(view)],
       [kind |-> "table", what |-> "describe", count |-> Len(view.rows)] >>

DownloadButton(view) ==
    [kind |-> "download_button", data |-> to_csv(view),
     file_name |-> "filtered_solar_data.csv", mime |-> "text/csv"]

---------------------------------------------------------------------------
(* The memo of @st.cache_data (line 15). *)

\* one key for every file
CacheKeyConstant(file) == "load_data"

\* the key load_data's result is stored under: the uploaded file
CacheKey(file) == file

IsCached(memo, file) == CacheKey(file) \in DOMAIN memo

\* a miss: the body ran, and its result is stored unless it raised
Miss(memo, file, r) ==
    [raised |-> r.raised, df |-> r.df, parsed |-> TRUE,
     memo |-> IF r.raised = "" THEN (CacheKey(file) :> r.df) @@ memo ELSE memo]

\* load_data(uploaded_file) through the memo: the stored Dataset on a hit
CachedLoad(memo, file) ==
    IF IsCached(memo, file)
    THEN [raised |-> "", df |-> memo[CacheKey(file)], parsed |-> FALSE, memo |-> memo]
    ELSE Miss(memo, file, load_data(file))

---------------------------------------------------------------------------
(* One run of the script, top to bottom. *)

PageTop == << [kind |-> "title"], [kind |-> "file_uploader"] >>

EmptyView == [columns |-> <<>>, index |-> <<>>, rows |-> <<>>]

\* what a run leaves behind when it ends before the pickers
Halted(status, raised, elements, parsed, memo) ==
    [out |-> [status |-> status, raised |-> raised, elements |-> elements,
              parsed |-> parsed, df |-> EmptyFrame, view |-> EmptyView,
              start_time |-> 0, end_time |-> 0],
     memo |-> memo, start_widget |-> NoWidget, end_widget |-> NoWidget]

\* the branch taken always
FileUploadedAlways(file) == TRUE

\* line 23: the branch taken when a file is uploaded
FileUploaded(file) == file # NoFile

\* lines 60-126 on the view that carries the Efficiency column
Page(start, end, kpis, view) ==
    PageTop
    \o << [kind |-> "header"],
          [kind |-> "time_input", label |-> "Start Time", value |-> start.val],
          [kind |-> "time_input", label |-> "End Time", value |-> end.val] >>
    \o kpis \o Tables(view) \o Charts(view) \o FaultReport(view)
    \o << DownloadButton(view), [kind |-> "footer"] >>

\* the run from line 60 on
AfterEfficiency(load, start, end, kpis, both) ==
    [out |-> [status |-> "complete", raised |-> "",
              elements |-> Page(start, end, kpis, both.view),
              parsed |-> load.parsed, df |-> both.df, view |-> both.view,
              start_time |-> start.val, end_time |-> end.val],
     memo |-> load.memo, start_widget |-> start, end_widget |-> end]

\* lines 45-55: the cards are computed, then Efficiency is assigned
AfterFilter(load, start, end, selected) ==
    AfterEfficiency(load, start, end, KpiCards(selected),
                    AssignEfficiency(load.df, selected))

\* lines 36-39
AfterPickers(load, start, end) ==
    AfterFilter(load, start, end, df_filtered(load.df, start.val, end.val))

\* lines 29-34, after load_data returned or raised
AfterLoad(load, sw, ew) ==
    IF load.raised # ""
    THEN \* line 24 raised: the run ends, Streamlit shows the exception
         Halted("exception", load.raised,
                PageTop \o << [kind |-> "exception", type |-> load.raised] >>,
                load.parsed, load.memo)
    ELSE IF ~HasDefaults(load.df)
    THEN \* line 33 raised
         Halted("exception", "ValueError",
                PageTop \o << [kind |-> "header"],
                              [kind |-> "exception", type |-> "ValueError"] >>,
                load.parsed, load.memo)
    ELSE AfterPickers(load, time_input(sw, DefaultStart(load.df)),
                      time_input(ew, DefaultEnd(load.df)))

ScriptRun(file, memo, sw, ew) ==
    IF ~FileUploaded(file)
    THEN \* lines 26-27: st.info, st.stop
         Halted("stopped", "", PageTop \o << [kind |-> "info"] >>, FALSE, memo)
    ELSE AfterLoad(CachedLoad(memo, file), sw, ew)

---------------------------------------------------------------------------
(* The session: interactions, each followed by a run of the script. *)

Count(fn, k) == IF k \in DOMAIN fn THEN fn[k] ELSE 0

Bump(fn, k) == (k :> Count(fn, k) + 1) @@ fn

RECURSIVE Total(_)
Total(fn) ==
    IF DOMAIN fn = {} THEN 0
    ELSE LET k == CHOOSE x \in DOMAIN fn : TRUE
         IN  fn[k] + Total([x \in DOMAIN fn \ {k} |-> fn[x]])

\* what a run r of the script on `file` leaves in the session
Ran(file, r) ==
    /\ uploaded_file' = file
    /\ cache' = r.memo
    /\ start_widget' = r.start_widget
    /\ end_widget' = r.end_widget
    /\ out' = r.out
    /\ nparse' = IF r.out.parsed THEN Bump(nparse, file) ELSE nparse

\* an interaction re-runs the script on the widgets' values
Rerun(file, sw, ew) == Ran(file, ScriptRun(file, cache, sw, ew))

FirstRun(r) ==
    /\ uploaded_file = NoFile
    /\ cache = r.memo
    /\ start_widget = r.start_widget
    /\ end_widget = r.end_widget
    /\ out = r.out
    /\ nparse = <<>>
    /\ nupload = <<>>
    /\ event = "open"

\* the page is opened: the first run, nothing uploaded
Init == FirstRun(ScriptRun(NoFile, <<>>, NoWidget, NoWidget))

UploadFile(f) ==
    /\ Rerun(f, start_widget, end_widget)
    /\ nupload' = Bump(nupload, f)
    /\ event' = "upload"

RemoveFile ==
    /\ uploaded_file # NoFile
    /\ Rerun(NoFile, start_widget, end_widget)
    /\ UNCHANGED nupload
    /\ event' = "remove"

ChangeStart(t) ==
    /\ start_widget.shown
    /\ t # start_widget.val
    /\ Rerun(uploaded_file, [start_widget EXCEPT !.val = t], end_widget)
    /\ UNCHANGED nupload
    /\ event' = "change_start"

ChangeEnd(t) ==
    /\ end_widget.shown
    /\ t # end_widget.val
    /\ Rerun(uploaded_file, start_widget, [end_widget EXCEPT !.val = t])
    /\ UNCHANGED nupload
    /\ event' = "change_end"

\* a session of several uploads of short files
Upload == \E f \in SessionFiles : Total(nupload) < MaxUploads /\ UploadFile(f)
Remove == RemoveFile
SetStart == \E t \in TimeChoices : ChangeStart(t)
SetEnd == \E t \in TimeChoices : ChangeEnd(t)

Next == Upload \/ Remove \/ SetStart \/ SetEnd

Spec == Init /\ [][Next]_vars

\* one upload of a longer file, then any changes of the pickers
UploadOnce == \E f \in ViewFiles : nupload = <<>> /\ UploadFile(f)

NextView == UploadOnce \/ SetStart \/ SetEnd

SpecView == Init /\ [][NextView]_vars

---------------------------------------------------------------------------
(* Vocabulary of the properties. *)

Completed == out.status = "complete"

PickerChanged == event \in {"change_start", "change_end"}

\* the rendered elements of one kind, in page order
Rendered(kind) == SelectSeq(out.elements, LAMBDA e : e.kind = kind)

\* the positions of the rows of df whose clock time lies in [s, e]
InWindow(df, s, e) ==
    { i \in DOMAIN df.rows :
        s <= TimeOf(df.rows[i]["Timestamp"]) /\ TimeOf(df.rows[i]["Timestamp"]) <= e }

\* the k-th smallest element of a set of positions
Kth(S, k) == CHOOSE i \in S : Cardinality({ j \in S : j < i }) = k - 1

\* sub holds exactly the rows of df at the positions S, in the order of df,
\* with their values in every column of df
IsSelection(sub, df, S) ==
    /\ Len(sub.rows) = Cardinality(S)
    /\ \A k \in DOMAIN sub.rows :
          /\ sub.index[k] = df.index[Kth(S, k)]
          /\ \A c \in Range(df.columns) : sub.rows[k][c] = df.rows[Kth(S, k)][c]

SameDate(df) ==
    \A i, j \in DOMAIN df.rows : Date(df.rows[i]["Timestamp"]) = Date(df.rows[j]["Timestamp"])

---------------------------------------------------------------------------
(* C1.  Time Filter: the Filtered View holds exactly the rows of the       *)
(* Dataset whose clock time t satisfies start <= t <= end, both bounds     *)
(* inclusive and the date ignored, in the Dataset's order; with            *)
(* start > end the view is empty; a run triggered by setting a picker      *)
(* raises nothing.                                                         *)

C1_TimeFilter ==
    /\ PickerChanged => Completed
    /\ Completed =>
          /\ IsSelection(out.view, out.df, InWindow(out.df, out.start_time, out.end_time))
          /\ out.start_time > out.end_time => out.view.rows = <<>>

\* two rows of two dates kept around a dropped one, the end bound met exactly
C1_Witness ==
    /\ Completed
    /\ PickerChanged
    /\ out.view.index = <<0, 2>>
    /\ Len(out.df.rows) = 3
    /\ ~SameDate(out.view)
    /\ \E k \in DOMAIN out.view.rows : TimeOf(out.view.rows[k]["Timestamp"]) = out.end_time

---------------------------------------------------------------------------
(* C10.  Default window: with both pickers at their defaults (the clock    *)
(* times of the Dataset's minimum and maximum Timestamp) the Filtered View *)
(* holds every row of a non-empty Dataset whose rows share one calendar    *)
(* date; the first run after an upload is such a run.                      *)

AtDefaults ==
    /\ start_widget.shown /\ start_widget.val = start_widget.dflt
    /\ end_widget.shown /\ end_widget.val = end_widget.dflt

\* C10: at the defaults, a one-date non-empty Dataset is shown whole
C10_DefaultWindow ==
    /\ Completed /\ event = "upload" => AtDefaults
    /\ Completed /\ AtDefaults /\ SameDate(out.df) =>
          /\ out.df.rows # <<>>
          /\ out.view.index = out.df.index
          /\ IsSelection(out.view, out.df, DOMAIN out.df.rows)

\* three rows of one date, not in time order, right after the upload
C10_Witness ==
    /\ Completed
    /\ event = "upload"
    /\ AtDefaults
    /\ SameDate(out.df)
    /\ Len(out.view.rows) = 3
    /\ TimeOf(out.df.rows[2]["Timestamp"]) < TimeOf(out.df.rows[1]["Timestamp"])
    /\ TimeOf(out.df.rows[2]["Timestamp"]) < TimeOf(out.df.rows[3]["Timestamp"])

---------------------------------------------------------------------------
(* C6.  Fault report: the fault table holds exactly the rows of the        *)
(* Filtered View whose Fault_Status differs from "No Fault"; the success   *)
(* indicator is rendered iff there is no such row, otherwise the warning   *)
(* and the full table; every completed run renders exactly one of the two. *)

FaultRows(view) == { i \in DOMAIN view.rows : view.rows[i]["Fault_Status"] # "No Fault" }

\* C6: success iff no fault row, else warning and the table of exactly the
\* fault rows
C6_FaultReport ==
    Completed =>
        /\ Len(Rendered("success")) + Len(Rendered("warning")) = 1
        /\ Len(Rendered("success")) = 1 <=> FaultRows(out.view) = {}
        /\ Len(Rendered("dataframe")) = Len(Rendered("warning"))
        /\ \A k \in DOMAIN Rendered("dataframe") :
              /\ Rendered("dataframe")[k].frame.columns = out.view.columns
              /\ IsSelection(Rendered("dataframe")[k].frame, out.view, FaultRows(out.view))

\* the view's Fault_Status is "No Fault", "No Fault", "Overheat": the warning
\* and a table of the one Overheat row
C6_Witness ==
    /\ Completed
    /\ Column(out.view, "Fault_Status") = << "No Fault", "No Fault", "Overheat" >>
    /\ Len(Rendered("warning")) = 1
    /\ Len(Rendered("success")) = 0
    /\ Len(Rendered("dataframe")[1].frame.rows) = 1
    /\ Rendered("dataframe")[1].frame.rows[1]["Fault_Status"] = "Overheat"

---------------------------------------------------------------------------
(* C7.  HourlyAvgPower: its keys are exactly the Hour values occurring in  *)
(* the Filtered View, in ascending order; each value is the arithmetic     *)
(* mean of Power_Output_W over exactly the view's rows of that Hour; Hour  *)
(* is the hour of the row's Timestamp.                                     *)

HourRows(view, h) == { i \in DOMAIN view.rows : view.rows[i]["Hour"] = h }

RECURSIVE PowerOver(_, _)
PowerOver(view, S) ==
    IF S = {} THEN 0
    ELSE LET i == CHOOSE x \in S : TRUE
         IN  view.rows[i]["Power_Output_W"] + PowerOver(view, S \ {i})

HourlyAvgPower == Rendered("bar_chart")[1].data

\* C7: keys are the hours present, ascending; values are the group means
C7_HourlyAvgPower ==
    Completed =>
        /\ Len(Rendered("bar_chart")) = 1
        /\ \A i \in DOMAIN out.view.rows :
              out.view.rows[i]["Hour"] = HourOf(out.view.rows[i]["Timestamp"])
        /\ { HourlyAvgPower[j].Hour : j \in DOMAIN HourlyAvgPower }
              = { out.view.rows[i]["Hour"] : i \in DOMAIN out.view.rows }
        /\ \A j, k \in DOMAIN HourlyAvgPower :
              j < k => HourlyAvgPower[j].Hour < HourlyAvgPower[k].Hour
        /\ \A j \in DOMAIN HourlyAvgPower :
              LET S == HourRows(out.view, HourlyAvgPower[j].Hour)
              IN  /\ S # {}
                  /\ HourlyAvgPower[j].mean.den # 0
                  /\ HourlyAvgPower[j].mean.num * Cardinality(S)
                        = PowerOver(out.view, S) * HourlyAvgPower[j].mean.den

\* powers 100, 200, 300 in hour 10 and nothing else: HourlyAvgPower[10] = 200
C7_Witness ==
    /\ Completed
    /\ Len(out.view.rows) = 3
    /\ Range(Column(out.view, "Power_Output_W")) = {100, 200, 300}
    /\ Range(Column(out.view, "Hour")) = {10}
    /\ HourlyAvgPower = << [Hour |-> 10, mean |-> [num |-> 200, den |-> 1]] >>

---------------------------------------------------------------------------
(* C3.  Empty Filtered View.  As claimed: the run completes and every      *)
(* aggregate (EnergySaved, CO2Saved, AvgPanelTemp, MaxPower) is reported   *)
(* as NaN.  The code reports the two sums as the number 0.                 *)

Metric(label) == (CHOOSE e \in Range(Rendered("metric")) : e.label = label).value

\* the run got past the upload branch, load_data and the two pickers
ReachedFilter ==
    /\ uploaded_file.present
    /\ load_data(uploaded_file).raised = ""
    /\ HasDefaults(load_data(uploaded_file).df)

EmptyViewRun == Completed /\ out.view.rows = <<>>

---------------------------------------------------------------------------
(* C2.  Export round trip.  As claimed: the exported CSV does not carry    *)
(* the derived columns Hour, Month and Efficiency, and parsed back by the  *)
(* Loader it reproduces the view's rows and values in order.  The code     *)
(* exports every column of the view, the derived ones included.            *)

Exported == Rendered("download_button")[1].data

Reloaded == load_data(AsUpload(Exported))

\* the rows read back equal the view's rows in the given columns, in order
SameRows(back, view, cols) ==
    /\ Len(back.rows) = Len(view.rows)
    /\ \A i \in DOMAIN view.rows : \A c \in cols : back.rows[i][c] = view.rows[i][c]

---------------------------------------------------------------------------
(* C4.  Load failure: an upload that does not decode, has no Timestamp     *)
(* column or holds an unparseable Timestamp makes load_data raise; the run *)
(* shows the exception and ends: no card, table, chart, fault report or    *)
(* download is rendered, and no Dataset of that file exists.               *)

ReportKinds ==
    { "metric", "table", "pyplot", "bar_chart", "warning", "dataframe", "success",
      "download_button", "time_input" }

\* C4: a malformed upload ends the run with the exception and no report
C4_LoadFailure ==
    uploaded_file \in MalformedFiles =>
        /\ out.status = "exception"
        /\ out.parsed
        /\ uploaded_file = UndecodableFile => out.raised = "UnicodeDecodeError"
        /\ uploaded_file = NoTimestampFile => out.raised = "KeyError"
        /\ uploaded_file = BadTimestampFile => out.raised = "ValueError"
        /\ Len(Rendered("exception")) = 1
        /\ Rendered("exception")[1].type = out.raised
        /\ \A i \in DOMAIN out.elements : out.elements[i].kind \notin ReportKinds
        /\ ~IsCached(cache, uploaded_file)
        /\ out.df = EmptyFrame
        /\ out.view = EmptyView

\* a file with one good and one unparseable Timestamp, uploaded over a file
\* that had been loaded and rendered
C4_Witness ==
    /\ uploaded_file = BadTimestampFile
    /\ out.status = "exception"
    /\ cache # <<>>

---------------------------------------------------------------------------
(* C5.  No file uploaded: the run shows the guidance message and stops     *)
(* there; load_data, the filter, the metrics, the report and the export    *)
(* are not executed, and nothing is raised.                                *)

C5_NoFile ==
    ~uploaded_file.present =>
        /\ out.status = "stopped"
        /\ out.raised = ""
        /\ out.elements = << [kind |-> "title"], [kind |-> "file_uploader"], [kind |-> "info"] >>
        /\ ~out.parsed
        /\ out.df = EmptyFrame
        /\ out.view = EmptyView
        /\ ~start_widget.shown /\ ~end_widget.shown

\* the file is removed after it had been loaded and rendered
C5_Witness ==
    /\ ~uploaded_file.present
    /\ event = "remove"
    /\ cache # <<>>
    /\ out.status = "stopped"

---------------------------------------------------------------------------
(* C8.  Dataset lifecycle: load_data's body runs at most once per upload,  *)
(* and once only for a file that loads, however often it is uploaded; a    *)
(* picker change never runs it and always recomputes the Filtered View     *)
(* from the memoized Dataset; every completed run uses the Dataset of the  *)
(* file uploaded last.                                                     *)

C8_Lifecycle ==
    /\ \A f \in DOMAIN nupload :
          /\ Count(nparse, f) <= nupload[f]
          /\ load_data(f).raised = "" => Count(nparse, f) = 1
    /\ DOMAIN nparse \subseteq DOMAIN nupload
    /\ PickerChanged =>
          /\ Completed
          /\ ~out.parsed
          /\ IsCached(cache, uploaded_file)
          /\ out.start_time = start_widget.val
          /\ out.end_time = end_widget.val
          /\ IsSelection(out.view, cache[CacheKey(uploaded_file)],
                         InWindow(cache[CacheKey(uploaded_file)],
                                  start_widget.val, end_widget.val))
    /\ Completed =>
          /\ out.df = load_data(uploaded_file).df
          /\ IsSelection(out.view, load_data(uploaded_file).df,
                         InWindow(load_data(uploaded_file).df, out.start_time, out.end_time))

\* a second file was uploaded over a first, then a picker was changed
C8_Witness ==
    /\ PickerChanged
    /\ Completed
    /\ Cardinality(DOMAIN cache) = 2
    /\ out.view.rows # <<>>

---------------------------------------------------------------------------
(* C9.  The Dataset is never mutated by a run: after the filter, the       *)
(* cards, the Efficiency assignment, the fault table and the export, the   *)
(* Dataset is what load_data produced (rows, order, values, columns); the  *)
(* Efficiency column is on the Filtered View only; the memo hands the same *)
(* Dataset to the next run.                                                *)

C9_DatasetUnchanged ==
    Completed =>
        /\ ~HasColumn(out.df, "Efficiency")
        /\ HasColumn(out.view, "Efficiency")
        /\ out.df = load_data(uploaded_file).df
        /\ IsCached(cache, uploaded_file)
        /\ ~HasColumn(cache[CacheKey(uploaded_file)], "Efficiency")
        /\ cache[CacheKey(uploaded_file)] = load_data(uploaded_file).df

\* a later run on the memoized Dataset, with rows in the view
C9_Witness ==
    /\ Completed
    /\ PickerChanged
    /\ ~out.parsed
    /\ Len(out.view.rows) >= 2
    /\ Len(out.view.rows) < Len(out.df.rows)

====
